---- MODULE Spec2Model ----
(***************************************************************************)
(* Iceberg Metadata Insights: one run of main() of src/src/app.py as a     *)
(* state machine.  main() is a straight-line script: it acquires a         *)
(* connection and a cursor, lists schemas and tables, evaluates the six    *)
(* sidebar buttons, and, when a table is selected, reads the statistics,   *)
(* the snapshot timeline, the file details and the twelve metadata tabs.   *)
(* Every cursor.execute is a blocking round trip: it is modelled by an     *)
(* issue step (Execute) and the return step of the statement's handler.    *)
(***************************************************************************)
EXTENDS Integers, Sequences, FiniteSets

\* Largest number of schemas / tables the listing queries return.
MaxSchemas == 1
MaxTables == 1

\* Python None (falsy): an empty selectbox returns it.
None == 0

\* st.tabs([...]) creates tabs[0] .. tabs[11].
LastTab == 11
Tabs == 0..LastTab

----------------------------------------------------------------------------
\* Positions of main(), in program order.

SidebarQueries == <<"schemas", "tables">>

Buttons ==
  <<"analyze", "optimize", "optimize_manifests", "expire_snapshots",
    "remove_orphan_files", "drop_extended_stats">>

\* The five procedures handed to execute_alter_table.
Procedures ==
  {"optimize", "optimize_manifests", "expire_snapshots",
   "remove_orphan_files", "drop_extended_stats"}

\* The argument string main() passes for each procedure.
Command(p) ==
  CASE p = "optimize" -> "optimize(file_size_threshold => '128MB')"
    [] p = "optimize_manifests" -> "optimize_manifests"
    [] p = "expire_snapshots" -> "expire_snapshots(retention_threshold => '7d')"
    [] p = "remove_orphan_files" -> "remove_orphan_files(retention_threshold => '7d')"
    [] p = "drop_extended_stats" -> "drop_extended_stats"

Reads == <<"fetch_stats", "load_snapshot_history", "load_file_details">>

TabSteps ==
  <<"tabs[0]", "tabs[1]", "tabs[2]", "tabs[3]", "tabs[4]", "tabs[5]",
    "tabs[6]", "tabs[7]", "tabs[8]", "tabs[9]", "tabs[10]", "tabs[11]">>

\* Mutant of Order: the sidebar buttons evaluated after the reads of the body.
OrderReadsFirst ==
  <<"init_connection", "cursor">> \o SidebarQueries \o <<"if_table">> \o Reads
    \o Buttons \o TabSteps \o <<"done">>

\* The statements of main(), top to bottom.
Order ==
  <<"init_connection", "cursor">> \o SidebarQueries \o Buttons
    \o <<"if_table">> \o Reads \o TabSteps \o <<"done">>

Range(s) == {s[i] : i \in 1..Len(s)}

\* The position of each statement in the program order.
Position == [s \in Range(Order) |-> CHOOSE i \in 1..Len(Order) : Order[i] = s]

Index(step) == Position[step]

\* The statement that follows `step` when it completes normally.
After(step) == Order[Index(step) + 1]

\* The metadata view each tab reads (tabs[0] runs SHOW CREATE TABLE).
View(t) ==
  CASE t = 0 -> "show create table"
    [] t = 1 -> "properties"
    [] t = 2 -> "history"
    [] t = 3 -> "manifests"
    [] t = 4 -> "all_manifests"
    [] t = 5 -> "metadata_log_entries"
    [] t = 6 -> "snapshots"
    [] t = 7 -> "partitions"
    [] t = 8 -> "files"
    [] t = 9 -> "entries"
    [] t = 10 -> "all_entries"
    [] t = 11 -> "refs"

\* columns=[...] of the pd.DataFrame built in each tab.
Columns(t) ==
  CASE t = 0 -> <<>>
    [] t = 1 -> <<"Key", "Value">>
    [] t = 2 -> <<"Made Current At", "Snapshot ID", "Parent ID", "Is Current Ancestor">>
    [] t = 3 -> <<"Path", "Length", "Partition Spec ID", "Added Snapshot ID",
                  "Added Data Files Count", "Existing Data Files Count",
                  "Deleted Data Files Count", "Added Position Deletes Count",
                  "Existing Position Deletes Count",
                  "Deleted Position Deletes Count", "Partitions">>
    [] t = 4 -> <<"Path", "Length", "Partition Spec ID", "Added Snapshot ID",
                  "Added Data Files Count", "Existing Data Files Count",
                  "Deleted Data Files Count", "Partition Summaries">>
    [] t = 5 -> <<"Timestamp", "File", "Latest Snapshot ID", "Latest Schema ID",
                  "Latest Sequence Number">>
    [] t = 6 -> <<"Committed At", "Snapshot ID", "Parent ID", "Operation",
                  "Manifest List", "Summary">>
    [] t = 7 -> <<"Record Count", "File Count", "Total Size", "Data">>
    [] t = 8 -> <<"Content", "File Path", "Record Count", "File Format",
                  "File Size (Bytes)">>
    [] t = 9 -> <<"Status", "Snapshot ID", "Seq Num", "File Seq Num", "Data File",
                  "Readable Metrics">>
    [] t = 10 -> <<"Status", "Snapshot ID", "Seq Num", "File Seq Num", "Data File",
                   "Readable Metrics">>
    [] t = 11 -> <<"Name", "Type", "Snapshot ID", "Max Reference Age (ms)",
                   "Min Snapshots to Keep", "Max Snapshot Age (ms)">>

\* Mutant of Labels: the history dataframe built with its last label missing.
LabelsHistoryShort(t) ==
  IF t = 2 THEN SubSeq(Columns(t), 1, Len(Columns(t)) - 1) ELSE Columns(t)

\* The labels pd.DataFrame(rows, columns=[...]) attaches to the rows of tab t.
Labels(t) == Columns(t)

\* The X of st.error(f"Error loading X: {str(e)}") in each tab's except block.
ErrorLabel(t) ==
  CASE t = 0 -> "references"
    [] t = 1 -> "properties"
    [] t = 2 -> "history"
    [] t = 3 -> "manifests"
    [] t = 4 -> "all manifests"
    [] t = 5 -> "metadata log"
    [] t = 6 -> "snapshots"
    [] t = 7 -> "partitions"
    [] t = 8 -> "files"
    [] t = 9 -> "entries"
    [] t = 10 -> "all entries"
    [] t = 11 -> "references"

----------------------------------------------------------------------------
\* The engine, seen through Cursor.execute.

\* What a round trip can end with.
Outcomes == {"ok", "QueryError", "ConnectionError"}

\* str(e) of the engine's exception.
EngineMessage(outcome) ==
  CASE outcome = "QueryError" -> "TrinoUserError: table or view does not exist"
    [] outcome = "ConnectionError" -> "ConnectionError: engine unreachable"
    [] OTHER -> ""

----------------------------------------------------------------------------
\* State of one run of main().

VARIABLES
  pc,        \* the statement main() is at; "raised" once an exception left it
  clicked,   \* the sidebar button whose click triggered this run, or "none"
  conns,     \* connections acquired by init_connection() in this run
  cursors,   \* cursors acquired by conn.cursor() in this run
  schema,    \* st.selectbox("Schema", schemas)
  table,     \* st.selectbox("Table", tables)
  log,       \* statements handed to cursor.execute, in the order issued
  inflight,  \* indices of log whose round trip has not returned yet
  ostate,    \* execute_alter_table: Idle, Issuing, Succeeded or Failed
  result,    \* the MaintenanceResult of execute_alter_table, or NoResult
  sidebar,   \* messages shown in the sidebar (st.success / st.error)
  rendered,  \* sections of the page body rendered so far
  shown,     \* what each tab displays: none, code, dataframe or error
  columns,   \* the column labels of the dataframe displayed in each tab
  errors,    \* the X of "Error loading X: ..." displayed in each tab
  exc,       \* the exception that left main(), or "none"
  raisedAt,  \* the statement that raised it
  connLost   \* the engine has been unreachable for some request of this run

vars ==
  <<pc, clicked, conns, cursors, schema, table, log, inflight, ostate, result,
    sidebar, rendered, shown, columns, errors, exc, raisedAt, connLost>>

NoResult == [procedure_name |-> "", table_identifier |-> <<None, None>>,
             outcome |-> "none", error_message |-> ""]

Clicks == {"none"} \cup Range(Buttons)

\* A fresh execution of the script: nothing acquired, selected or displayed.
StartRun(c) ==
  /\ pc = "init_connection"
  /\ clicked = c
  /\ conns = 0
  /\ cursors = 0
  /\ schema = None
  /\ table = None
  /\ log = <<>>
  /\ inflight = {}
  /\ ostate = "Idle"
  /\ result = NoResult
  /\ sidebar = {}
  /\ rendered = {}
  /\ shown = [t \in Tabs |-> "none"]
  /\ columns = [t \in Tabs |-> <<>>]
  /\ errors = [t \in Tabs |-> ""]
  /\ exc = "none"
  /\ raisedAt = "none"
  /\ connLost = FALSE

Init == \E c \in Clicks : StartRun(c)

----------------------------------------------------------------------------
\* Helpers shared by the handlers.

\* Statements that go through cursor.execute.
RequestSteps ==
  Range(SidebarQueries) \cup Range(Buttons) \cup Range(Reads) \cup Range(TabSteps)

\* Statements whose SQL text names {schema}.{table}.
TableSteps == RequestSteps \ Range(SidebarQueries)

\* The record of one cursor.execute call.
Statement(step) ==
  [step |-> step,
   schema |-> IF step = "schemas" THEN None ELSE schema,
   table |-> IF step \in TableSteps THEN table ELSE None,
   cursor |-> cursors]

\* Mutant of Caught: the history tab without its try / except.
CaughtExceptHistory(step, outcome) == step \in Range(TabSteps) \ {"tabs[2]"}

\* Whether an exception raised by the request at `step` is caught inside main():
\* only the twelve tabs wrap their request in try / except Exception.
Caught(step, outcome) == step \in Range(TabSteps)

\* The round trip of the statement at pc returns.
Returns(step) ==
  /\ pc = step
  /\ inflight # {}
  /\ inflight' = {}

\* The exception of `outcome` leaves main() at `step`.
Raise(step, outcome) ==
  /\ pc' = "raised"
  /\ exc' = outcome
  /\ raisedAt' = step

NoRaise == UNCHANGED <<exc, raisedAt>>

Lost(outcome) == connLost' = (connLost \/ outcome = "ConnectionError")

----------------------------------------------------------------------------
\* The statements of main().

\* conn = init_connection()
InitConnection ==
  /\ pc = "init_connection"
  /\ \E outcome \in {"ok", "ConnectionError"} :
       /\ Lost(outcome)
       /\ IF outcome = "ok"
            THEN /\ conns' = conns + 1
                 /\ pc' = After("init_connection")
                 /\ NoRaise
            ELSE /\ Raise("init_connection", outcome)
                 /\ UNCHANGED conns
  /\ UNCHANGED <<clicked, cursors, schema, table, log, inflight, ostate, result,
                 sidebar, rendered, shown, columns, errors>>

\* cursor = conn.cursor()
Cursor ==
  /\ pc = "cursor"
  /\ cursors' = cursors + 1
  /\ pc' = After("cursor")
  /\ UNCHANGED <<clicked, conns, schema, table, log, inflight, ostate, result,
                 sidebar, rendered, shown, columns, errors, exc, raisedAt,
                 connLost>>

\* Mutant of Execute: every statement is issued on a cursor of its own.
ExecuteOnOwnCursor ==
  /\ pc \in RequestSteps
  /\ pc \in Range(Buttons) => clicked = pc
  /\ inflight = {}
  /\ cursors' = cursors + 1
  /\ log' = Append(log, [Statement(pc) EXCEPT !.cursor = cursors + 1])
  /\ inflight' = {Len(log) + 1}
  /\ ostate' = IF pc \in Procedures THEN "Issuing" ELSE ostate
  /\ UNCHANGED <<pc, clicked, conns, schema, table, result, sidebar,
                 rendered, shown, columns, errors, exc, raisedAt, connLost>>

\* cursor.execute(...) is entered: the statement at pc goes to the engine and
\* main() blocks until it returns.  A button's statement is issued only in the
\* run its click triggered.
Execute ==
  /\ pc \in RequestSteps
  /\ pc \in Range(Buttons) => clicked = pc
  /\ inflight = {}
  /\ log' = Append(log, Statement(pc))
  /\ inflight' = {Len(log) + 1}
  /\ ostate' = IF pc \in Procedures THEN "Issuing" ELSE ostate
  /\ UNCHANGED <<pc, clicked, conns, cursors, schema, table, result, sidebar,
                 rendered, shown, columns, errors, exc, raisedAt, connLost>>

\* if st.button(...): is False for every button but the clicked one.
ButtonNotClicked ==
  /\ pc \in Range(Buttons)
  /\ clicked # pc
  /\ pc' = After(pc)
  /\ UNCHANGED <<clicked, conns, cursors, schema, table, log, inflight, ostate,
                 result, sidebar, rendered, shown, columns, errors, exc,
                 raisedAt, connLost>>

\* schemas = [...]; schema = st.selectbox("Schema", schemas)
ListSchemas ==
  /\ Returns("schemas")
  /\ \E outcome \in Outcomes :
       /\ Lost(outcome)
       /\ IF outcome = "ok"
            THEN /\ \E n \in 0..MaxSchemas :
                      schema' \in (IF n = 0 THEN {None} ELSE 1..n)
                 /\ pc' = After("schemas")
                 /\ NoRaise
            ELSE /\ Raise("schemas", outcome)
                 /\ UNCHANGED schema
  /\ UNCHANGED <<clicked, conns, cursors, table, log, ostate, result, sidebar,
                 rendered, shown, columns, errors>>

\* tables = [...]; table = st.selectbox("Table", tables).  The listing filters
\* on the selected schema: with no schema selected it matches nothing.
ListTables ==
  /\ Returns("tables")
  /\ \E outcome \in Outcomes :
       /\ Lost(outcome)
       /\ IF outcome = "ok"
            THEN /\ \E n \in 0..(IF schema = None THEN 0 ELSE MaxTables) :
                      table' \in (IF n = 0 THEN {None} ELSE 1..n)
                 /\ pc' = After("tables")
                 /\ NoRaise
            ELSE /\ Raise("tables", outcome)
                 /\ UNCHANGED table
  /\ UNCHANGED <<clicked, conns, cursors, schema, log, ostate, result, sidebar,
                 rendered, shown, columns, errors>>

\* if st.button("Analyze Table"): cursor.execute(f"ANALYZE ...").fetchall()
AnalyzeTable ==
  /\ Returns("analyze")
  /\ \E outcome \in Outcomes :
       /\ Lost(outcome)
       /\ IF outcome = "ok"
            THEN /\ sidebar' = sidebar \cup {"Table analyzed successfully."}
                 /\ pc' = After("analyze")
                 /\ NoRaise
            ELSE /\ Raise("analyze", outcome)
                 /\ UNCHANGED sidebar
  /\ UNCHANGED <<clicked, conns, cursors, schema, table, log, ostate, result,
                 rendered, shown, columns, errors>>

\* execute_alter_table(cursor, schema, table, command), when the engine
\* answers the ALTER TABLE ... EXECUTE call with `outcome`: the result it
\* returns.  An engine error becomes outcome = failed with the engine's message.
MaintenanceResult(procedure, outcome) ==
  [procedure_name |-> Command(procedure),
   table_identifier |-> <<schema, table>>,
   outcome |-> IF outcome = "ok" THEN "success" ELSE "failed",
   error_message |-> EngineMessage(outcome)]

\* execute_alter_table recovers the engine's rejection of the call; an
\* unreachable engine is not recovered.
Recovered(outcome) == outcome = "QueryError"

\* Mutant of Resume: main() stops the script when the procedure failed.
ResumeStopOnFailure(step, res) ==
  IF res.outcome = "failed" THEN "done" ELSE After(step)

\* Mutant of Resume: main() calls the procedure again when it failed.
ResumeRetryOnFailure(step, res) ==
  IF res.outcome = "failed" THEN step ELSE After(step)

\* Where main() goes on after execute_alter_table returned `res` at `step`: it
\* ignores the value and falls through to the next if st.button(...).
Resume(step, res) == After(step)

\* if st.button(<procedure>): execute_alter_table(cursor, schema, table, ...)
Maintenance ==
  /\ pc \in Procedures
  /\ Returns(pc)
  /\ \E outcome \in Outcomes :
       /\ Lost(outcome)
       /\ IF outcome = "ok" \/ Recovered(outcome)
            THEN /\ result' = MaintenanceResult(pc, outcome)
                 /\ ostate' = IF outcome = "ok" THEN "Succeeded" ELSE "Failed"
                 /\ sidebar' = sidebar \cup
                      {IF outcome = "ok" THEN "success" ELSE "error"}
                 /\ pc' = Resume(pc, result')
                 /\ NoRaise
            ELSE /\ Raise(pc, outcome)
                 /\ ostate' = "Failed"
                 /\ UNCHANGED <<result, sidebar>>
  /\ UNCHANGED <<clicked, conns, cursors, schema, table, log, rendered, shown,
                 columns, errors>>

\* if table:
IfTable ==
  /\ pc = "if_table"
  /\ pc' = IF table # None THEN After("if_table") ELSE "done"
  /\ UNCHANGED <<clicked, conns, cursors, schema, table, log, inflight, ostate,
                 result, sidebar, rendered, shown, columns, errors, exc,
                 raisedAt, connLost>>

\* The section of the page each read feeds.
Section(step) ==
  CASE step = "fetch_stats" -> "overview"
    [] step = "load_snapshot_history" -> "timeline"
    [] step = "load_file_details" -> "file sizes"

\* stats = fetch_stats(...), snapshot_history = load_snapshot_history(...),
\* file_details = load_file_details(...), each followed by its rendering.
Read(step) ==
  /\ Returns(step)
  /\ \E outcome \in Outcomes :
       /\ Lost(outcome)
       /\ IF outcome = "ok"
            THEN /\ rendered' = rendered \cup {Section(step)}
                 /\ pc' = After(step)
                 /\ NoRaise
            ELSE /\ Raise(step, outcome)
                 /\ UNCHANGED rendered
  /\ UNCHANGED <<clicked, conns, cursors, schema, table, log, ostate, result,
                 sidebar, shown, columns, errors>>

FetchStats == Read("fetch_stats")

LoadSnapshotHistory == Read("load_snapshot_history")

LoadFileDetails == Read("load_file_details")

\* with tabs[t]: try: <query>; st.code / st.dataframe  except Exception as e:
\* st.error(f"Error loading {ErrorLabel(t)}: {str(e)}")
Tab(t) ==
  /\ Returns(TabSteps[t + 1])
  /\ \E outcome \in Outcomes :
       /\ Lost(outcome)
       /\ IF outcome = "ok"
            THEN /\ shown' = [shown EXCEPT ![t] = IF t = 0 THEN "code" ELSE "dataframe"]
                 /\ columns' = [columns EXCEPT ![t] = Labels(t)]
                 /\ pc' = After(TabSteps[t + 1])
                 /\ NoRaise
                 /\ UNCHANGED errors
            ELSE IF Caught(TabSteps[t + 1], outcome)
            THEN /\ shown' = [shown EXCEPT ![t] = "error"]
                 /\ errors' = [errors EXCEPT ![t] = ErrorLabel(t)]
                 /\ pc' = After(TabSteps[t + 1])
                 /\ NoRaise
                 /\ UNCHANGED columns
            ELSE /\ Raise(TabSteps[t + 1], outcome)
                 /\ UNCHANGED <<shown, columns, errors>>
  /\ UNCHANGED <<clicked, conns, cursors, schema, table, log, ostate, result,
                 sidebar, rendered>>

ShowDDL == Tab(0)

MetadataTab == \E t \in Tabs \ {0} : Tab(t)

\* The caller runs main() again: a widget interaction (a button click or a
\* new selection) re-executes the script from the top.
Rerun ==
  /\ pc \in {"done", "raised"}
  /\ pc' = "init_connection"
  /\ clicked' \in Clicks
  /\ conns' = 0
  /\ cursors' = 0
  /\ schema' = None
  /\ table' = None
  /\ log' = <<>>
  /\ inflight' = {}
  /\ ostate' = "Idle"
  /\ result' = NoResult
  /\ sidebar' = {}
  /\ rendered' = {}
  /\ shown' = [t \in Tabs |-> "none"]
  /\ columns' = [t \in Tabs |-> <<>>]
  /\ errors' = [t \in Tabs |-> ""]
  /\ exc' = "none"
  /\ raisedAt' = "none"
  /\ connLost' = FALSE

Next ==
  \/ InitConnection
  \/ Cursor
  \/ Execute
  \/ ButtonNotClicked
  \/ ListSchemas
  \/ ListTables
  \/ AnalyzeTable
  \/ Maintenance
  \/ IfTable
  \/ FetchStats
  \/ LoadSnapshotHistory
  \/ LoadFileDetails
  \/ ShowDDL
  \/ MetadataTab
  \/ Rerun

Spec == Init /\ [][Next]_vars

----------------------------------------------------------------------------
\* Vocabulary of the properties.

\* main() has gone past `step` in this run.
Passed(step) == pc # "raised" /\ Index(pc) > Index(step)

\* Indices of the log at which `step` was issued.
Issued(step) == {i \in 1..Len(log) : log[i].step = step}

TabQueries == Range(TabSteps)

BodyReads == Range(Reads) \cup TabQueries

AllSections == {Section(Reads[i]) : i \in 1..Len(Reads)}

----------------------------------------------------------------------------
\* C1.  The twelve tabs fail independently: no exception leaves main() from
\* a tab, and every tab main() has gone past had its query issued and shows
\* either its rows or its own error, whatever the earlier tabs did; at the end
\* of a run with a table selected all twelve queries have been issued.
TabsFailIndependently ==
  /\ raisedAt \notin TabQueries
  /\ \A t \in Tabs :
       Passed(TabSteps[t + 1]) /\ table # None =>
         /\ Cardinality(Issued(TabSteps[t + 1])) = 1
         /\ shown[t] \in {"code", "dataframe", "error"}
         /\ shown[t] = "error" <=> errors[t] # ""
         /\ shown[t] = "dataframe" <=> columns[t] # <<>>

\* Two views failed, the tabs after them were still queried and displayed.
TwoTabsFailedOthersShown ==
  /\ pc = "done"
  /\ shown[1] = "error"
  /\ shown[2] = "error"
  /\ shown[0] = "code"
  /\ \A t \in 3..LastTab : shown[t] = "dataframe"

----------------------------------------------------------------------------
\* C2.  A maintenance procedure the engine rejects ends as outcome = failed
\* with a non-empty error message; the rejection never leaves main(), and the
\* run goes on: with a table selected it reaches the end having rendered the
\* overview sections and all twelve tabs.
MaintenanceFailureRecovered ==
  /\ ~(pc = "raised" /\ raisedAt \in Procedures /\ exc = "QueryError")
  /\ ostate = "Failed" /\ pc # "raised" =>
       /\ result.outcome = "failed"
       /\ result.error_message # ""
       /\ "error" \in sidebar
  /\ result.outcome = "failed" /\ pc = "done" /\ table # None =>
       /\ rendered = AllSections
       /\ \A t \in Tabs : shown[t] # "none"

\* A failed optimize, and the page body fully rendered in the same run.
FailedOptimizeStillRendered ==
  /\ pc = "done"
  /\ clicked = "optimize"
  /\ ostate = "Failed"
  /\ result.outcome = "failed"
  /\ rendered = AllSections
  /\ \A t \in Tabs : shown[t] \in {"code", "dataframe"}

----------------------------------------------------------------------------
\* C3.  Whenever the engine was unreachable for a request of the run, a
\* ConnectionError has left main().
ConnectionErrorPropagates ==
  connLost => pc = "raised" /\ exc = "ConnectionError"

----------------------------------------------------------------------------
\* C4.  No QueryError leaves main(): each one is recovered where it occurs
\* and the requests after it are still issued.
QueryErrorRecoveredLocally ==
  exc # "QueryError"

----------------------------------------------------------------------------
\* The column lists of section 6 of the specification, per view.
Section6(view) ==
  CASE view = "properties" -> <<"Key", "Value">>
    [] view = "history" ->
         <<"Made Current At", "Snapshot ID", "Parent ID", "Is Current Ancestor">>
    [] view = "manifests" ->
         <<"Path", "Length", "Partition Spec ID", "Added Data Files Count",
           "Existing Data Files Count", "Deleted Data Files Count",
           "Added Position Deletes Count", "Existing Position Deletes Count",
           "Deleted Position Deletes Count", "Partitions">>
    [] view = "all_manifests" ->
         <<"Path", "Length", "Partition Spec ID", "Added Snapshot ID",
           "Added Data Files Count", "Existing Data Files Count",
           "Deleted Data Files Count", "Partition Summaries">>
    [] view = "metadata_log_entries" ->
         <<"Timestamp", "File", "Latest Snapshot ID", "Latest Schema ID",
           "Latest Sequence Number">>
    [] view = "snapshots" ->
         <<"Committed At", "Snapshot ID", "Parent ID", "Operation",
           "Manifest List", "Summary">>
    [] view = "partitions" -> <<"Record Count", "File Count", "Total Size", "Data">>
    [] view = "files" ->
         <<"Content", "File Path", "Record Count", "File Format",
           "File Size (Bytes)">>
    [] view \in {"entries", "all_entries"} ->
         <<"Status", "Snapshot ID", "Seq Num", "File Seq Num", "Data File",
           "Readable Metrics">>
    [] view = "refs" ->
         <<"Name", "Type", "Snapshot ID", "Max Reference Age (ms)",
           "Min Snapshots to Keep", "Max Snapshot Age (ms)">>

\* Section 6 with the manifests row as the program labels it: Added Snapshot
\* ID stands between Partition Spec ID and the data-file counts.
Section6Amended(view) ==
  IF view = "manifests"
    THEN SubSeq(Section6(view), 1, 3) \o <<"Added Snapshot ID">>
           \o SubSeq(Section6(view), 4, Len(Section6(view)))
    ELSE Section6(view)

\* C5 as stated.  Every dataframe a tab displays carries exactly the column
\* list section 6 gives for the tab's view.
ColumnsMatchSection6 ==
  \A t \in Tabs \ {0} :
    shown[t] = "dataframe" => columns[t] = Section6(View(t))

\* C5, amended.  Every dataframe a tab displays carries the column list of
\* section 6 for its view, except that manifests carries eleven labels, with
\* Added Snapshot ID as the fourth.
ColumnsMatchSection6Amended ==
  \A t \in Tabs \ {0} :
    shown[t] = "dataframe" => columns[t] = Section6Amended(View(t))

\* Every view is displayed as a dataframe, manifests with eleven labels.
AllViewsDisplayed ==
  /\ pc = "done"
  /\ \A t \in Tabs \ {0} : shown[t] = "dataframe"
  /\ Len(columns[3]) = 11

----------------------------------------------------------------------------
\* The view an error label names.
LabelView(label) ==
  CASE label = "properties" -> "properties"
    [] label = "history" -> "history"
    [] label = "manifests" -> "manifests"
    [] label = "all manifests" -> "all_manifests"
    [] label = "metadata log" -> "metadata_log_entries"
    [] label = "snapshots" -> "snapshots"
    [] label = "partitions" -> "partitions"
    [] label = "files" -> "files"
    [] label = "entries" -> "entries"
    [] label = "all entries" -> "all_entries"
    [] label = "references" -> "refs"
    [] OTHER -> "show create table"

\* C6.  A tab that shows an error shows it under the name of its own view,
\* and no two tabs showing an error share a label.
TabErrorNamesOwnView ==
  /\ \A t \in Tabs : shown[t] = "error" => LabelView(errors[t]) = View(t)
  /\ \A t, u \in Tabs :
       shown[t] = "error" /\ shown[u] = "error" /\ t # u => errors[t] # errors[u]

----------------------------------------------------------------------------
\* The ALTER TABLE ... EXECUTE calls issued in this run.
ProcedureCalls == {i \in 1..Len(log) : log[i].step \in Procedures}

\* C7.  One trigger, one call: a procedure is called only in the run its
\* button triggered, at most once, and exactly once when main() has gone past
\* the button; the invocation is Idle before the call, Issuing while it is in
\* flight and Succeeded or Failed after it, and an invocation that has ended
\* stays as it ended until the caller runs main() again.
OneCallPerTrigger ==
  /\ [](/\ \A p \in Procedures :
             /\ Cardinality(Issued(p)) <= 1
             /\ Issued(p) # {} => clicked = p
             /\ clicked = p /\ Passed(p) => Cardinality(Issued(p)) = 1
        /\ ostate = "Idle" <=> ProcedureCalls = {}
        /\ ostate = "Issuing" <=> ProcedureCalls \cap inflight # {}
        /\ ostate \in {"Idle", "Issuing", "Succeeded", "Failed"})
  /\ [][/\ ostate = "Idle" => ostate' \in {"Idle", "Issuing"}
        /\ ostate = "Issuing" => ostate' \in {"Issuing", "Succeeded", "Failed"}
        /\ ostate \in {"Succeeded", "Failed"} =>
             \/ ostate' = ostate /\ ProcedureCalls' = ProcedureCalls
             \/ pc' = "init_connection"]_vars

\* A failed expire_snapshots, called once, at the end of its run.
FailedOnceNotRetried ==
  /\ pc = "done"
  /\ clicked = "expire_snapshots"
  /\ ostate = "Failed"
  /\ Cardinality(ProcedureCalls) = 1

----------------------------------------------------------------------------
\* C8.  One connection and one cursor per run, acquired before the first
\* statement; every statement goes through that cursor, and at most one
\* statement (hence at most one maintenance call) is in flight at a time.
OneCursorSequential ==
  /\ conns <= 1
  /\ cursors <= 1
  /\ Passed("cursor") => conns = 1 /\ cursors = 1
  /\ log # <<>> => conns = 1 /\ cursors = 1
  /\ \A i \in 1..Len(log) : log[i].cursor = 1
  /\ Cardinality(inflight) <= 1
  /\ inflight \subseteq {Len(log)}

\* A maintenance call in flight, after the two listing queries returned.
MaintenanceInFlight ==
  /\ pc = "remove_orphan_files"
  /\ inflight = {3}
  /\ Len(log) = 3
  /\ cursors = 1

----------------------------------------------------------------------------
\* C9.  A button's call is issued before every read of the page body (stats,
\* timeline, file details, the twelve tabs), and in a run a button triggered
\* a read is issued only once that call was issued and has returned.
ActionBeforeReads ==
  /\ \A i \in 1..Len(log) :
       log[i].step \in Range(Buttons) =>
         \A j \in 1..(i - 1) : log[j].step \notin BodyReads
  /\ clicked # "none" /\ (\E j \in 1..Len(log) : log[j].step \in BodyReads) =>
       \E i \in 1..Len(log) : log[i].step = clicked /\ i \notin inflight

\* An analyze run that went on to read the stats and the tabs.
AnalyzeThenReads ==
  /\ clicked = "analyze"
  /\ pc = "done"
  /\ table # None
  /\ Issued("fetch_stats") # {}
  /\ Issued("tabs[11]") # {}

----------------------------------------------------------------------------
\* C10.  No statement naming {schema}.{table} is issued with no table
\* selected.
NoTableNoStatement ==
  \A i \in 1..Len(log) :
    log[i].step \in TableSteps => log[i].table # None

====
